---- MODULE Spec2Model ----
(***************************************************************************)
(* A state-machine model of the cell types generated by the self_cell!     *)
(* macro (src/src/lib.rs): one heap block holding an owner and a dependent *)
(* derived from a reference to the owner, a handle that is a thin pointer  *)
(* to the block, the three constructors, the accessors, Clone, moves of    *)
(* the handle and Drop.                                                    *)
(*                                                                         *)
(* The program is single threaded: one call is in flight at a time         *)
(* (frame), and each action is one statement (or one run of statements)    *)
(* of the generated code.                                                  *)
(***************************************************************************)
EXTENDS Integers, Sequences, FiniteSets, TLC

\* ------------------------------------------------------------- bounds
\* Heap blocks the allocator can hand out (addresses 1..MaxBlocks).
MaxBlocks == 2
\* Caller variables that can hold a handle.
MaxSlots == 2
\* Longest owner string, in words.
MaxWords == 1

\* ---------------------------------------------------------- addresses
\* alloc() returns the null pointer when the allocation fails.
Null == 0
Blocks == 1..MaxBlocks
Addrs == 0..MaxBlocks
\* The address of the constructor's own `owner` parameter (the caller's
\* temporary), which the owner is moved out of.
StackAddr == MaxBlocks + 1
Slots == 1..MaxSlots

\* ------------------------------------------------------- owner values
\* An owner is a String, seen as its words' lengths: 1 is a one-character
\* word, 2 a longer one.
WordLens == {1, 2}
Owners == UNION {[1..n -> WordLens] : n \in 1..MaxWords}

\* A reference: the address of a block (or of the constructor's parameter)
\* and the field of JoinedCell it points at.
Ref(a, f) == [a |-> a, f |-> f]
NoRef == Ref(Null, "none")

\* Memory that holds an Owner: uninit (fresh from alloc), init, dropped
\* (drop_in_place ran on it) or moved (the value was moved out).
OwnerAt(st, v) == [st |-> st, v |-> v]
UninitOwner == OwnerAt("uninit", <<>>)
\* Memory that holds a Dependent: src is the address of the owner the
\* dependent borrows from (a reference), words the indexes of the words it refers to.
DepAt(st, src, words) == [st |-> st, src |-> src, words |-> words]
UninitDep == DepAt("uninit", NoRef, <<>>)

\* JoinedCell<Owner, Dependent>, with the allocator's state of the block.
JoinedCell(status, owner, dependent) ==
    [status |-> status, owner |-> owner, dependent |-> dependent]

VARIABLES
    ConstructorType,  \* #[from] | #[try_from] | #[from_fn] of the cell type
    Covariance,       \* #[covariant] | #[not_covariant] of the cell type
    heap,             \* address -> JoinedCell
    log,              \* block -> what happened to it since its allocation
    slots,            \* caller variable -> handle
    made,             \* history: caller variable -> how its handle was built
    frame,            \* the call in flight, or the last call's outcome
    obs               \* what the last accessor call returned

vars == <<ConstructorType, Covariance, heap, log, slots, made, frame, obs>>

\* ------------------------------------------------------------ handles
\* $StructName { unsafe_self_cell }: a pointer to the joined block.
Handle(ptr) == [alive |-> TRUE, unsafe_self_cell |-> ptr]
NoHandle == [alive |-> FALSE, unsafe_self_cell |-> Null]
NotMade == [owner |-> <<>>, builder |-> "none"]

\* ------------------------------------------------------------- frames
NoRet == [kind |-> "none", ptr |-> Null, err |-> <<>>]
Event(e, a) == [e |-> e, a |-> a]
Idle == frame.pc = "done"
\* No call in flight and no outcome of a constructor or a drop to look at.
NoCall ==
    [op |-> "none", pc |-> "done", owner |-> UninitOwner, joined_ptr |-> Null,
     dst |-> 0, src |-> 0, builder |-> "none", ret |-> NoRet, err |-> <<>>,
     trace |-> <<>>]

NoObs ==
    [acc |-> "none", slot |-> 0, owner_ref |-> NoRef, owner |-> UninitOwner,
     dep_ref |-> NoRef, dep |-> UninitDep]

\* ------------------------------------------------- user-supplied code
\* The indexes i in k..Len(code) of the words longer than one character.
RECURSIVE LongWordsFrom(_, _)
LongWordsFrom(code, k) ==
    IF k > Len(code) THEN <<>>
    ELSE (IF code[k] > 1 THEN <<k>> ELSE <<>>) \o LongWordsFrom(code, k + 1)

\* What a read through the reference `ref` sees: the owner slot of a block,
\* or the constructor's parameter.
Deref(ref) == IF ref.a = StackAddr THEN frame.owner ELSE heap[ref.a][ref.f]

\* impl From<&String> for Ast: the words longer than one character, as
\* references into the owner behind `ref`. A read of memory that holds no
\* live owner yields no words.
From(ref) ==
    DepAt("init", ref,
          IF Deref(ref).st = "init" THEN LongWordsFrom(Deref(ref).v, 1) ELSE <<>>)

\* A builder closure handed to from_fn: "long" keeps the words longer than
\* one character, "all" keeps every word.
Builders == {"long", "all"}
RECURSIVE AllWordsFrom(_, _)
AllWordsFrom(code, k) ==
    IF k > Len(code) THEN <<>> ELSE <<k>> \o AllWordsFrom(code, k + 1)
dependent_builder(b, ref) ==
    IF b = "long" THEN From(ref)
    ELSE DepAt("init", ref,
               IF Deref(ref).st = "init" THEN AllWordsFrom(Deref(ref).v, 1) ELSE <<>>)

\* impl TryFrom<&String> for Ast: an owner with no word longer than one
\* character is an error that names the owner's length.
TryFromFails(ref) == From(ref).words = <<>>
TryFromError(ref) == <<"no long word", Len(Deref(ref).v)>>

\* String::clone: an equal string, in memory of its own.
CloneOwner(o) == OwnerAt("init", o.v)

\* ---------------------------------------------------------- allocator
\* alloc(layout): a block that is not in use, or null.
CanAlloc(ptr) == ptr = Null \/ (ptr \in Blocks /\ heap[ptr].status = "free")
AllocBlock(ptr) ==
    /\ CanAlloc(ptr)
    /\ heap' = IF ptr = Null THEN heap
               ELSE [heap EXCEPT ![ptr] = JoinedCell("live", UninitOwner, UninitDep)]
    /\ log' = IF ptr = Null THEN log ELSE [log EXCEPT ![ptr] = <<"alloc">>]

Logged(ptr, evs) == IF ptr = Null THEN log ELSE [log EXCEPT ![ptr] = @ \o evs]

\* ------------------------------------------------------- constructors
\* The head of each constructor: Layout::new, alloc, transmute.
Enter(op, owner, builder, dst, src, ptr) ==
    /\ Idle
    /\ slots[dst] = NoHandle
    /\ AllocBlock(ptr)
    /\ frame' = [op |-> op, pc |-> "write_owner", owner |-> OwnerAt("init", owner),
                 joined_ptr |-> ptr, dst |-> dst, src |-> src, builder |-> builder,
                 ret |-> NoRet, err |-> <<>>,
                 trace |-> <<Event("alloc", ptr)>>]
    /\ obs' = NoObs
    /\ UNCHANGED <<ConstructorType, Covariance, slots, made>>

\* addr_of_mut!((*joined_ptr).owner).write(owner). Through a null joined_ptr
\* the write is undefined behaviour: the process traps, or the store lands at
\* address 0 and the constructor goes on.
WriteOwner(op) ==
    /\ frame.op = op
    /\ frame.pc = "write_owner"
    /\ \/ /\ frame.joined_ptr = Null
          /\ frame' = [frame EXCEPT !.pc = "aborted",
                                    !.trace = @ \o <<Event("trap", Null)>>]
          /\ UNCHANGED <<heap, log>>
       \/ /\ heap' = [heap EXCEPT ![frame.joined_ptr].owner = frame.owner]
          /\ log' = Logged(frame.joined_ptr, <<"write_owner">>)
          /\ frame' = [frame EXCEPT !.pc = "init_dependent",
                                    !.owner = OwnerAt("moved", frame.owner.v),
                                    !.trace = @ \o <<Event("write_owner", frame.joined_ptr)>>]
    /\ UNCHANGED <<ConstructorType, Covariance, slots, made, obs>>

\* A constructor that borrows its own parameter, &owner, for the derivation.
OwnerRef_OfParameter == Ref(StackAddr, "owner")

\* The reference the constructors hand to the derivation: &(*joined_ptr).owner.
OwnerRef == Ref(frame.joined_ptr, "owner")

\* An unwinding that runs a cleanup guard: the owner is dropped and the block
\* freed on the way out.
Panic_WithCleanup(ref) ==
    /\ frame' = [frame EXCEPT !.pc = "done",
                              !.ret = [kind |-> "panic", ptr |-> Null, err |-> <<>>],
                              !.trace = @ \o <<Event("derive", ref), Event("panic", ref),
                                               Event("drop_owner", frame.joined_ptr),
                                               Event("dealloc", frame.joined_ptr)>>]
    /\ heap' = IF frame.joined_ptr = Null
               THEN [heap EXCEPT ![Null].owner.st = "dropped"]
               ELSE [heap EXCEPT ![frame.joined_ptr] =
                         JoinedCell("free", UninitOwner, UninitDep)]
    /\ log' = Logged(frame.joined_ptr, <<"drop_owner", "dealloc">>)
    /\ UNCHANGED <<slots, made>>

\* The derivation unwinds: nothing of the constructor runs after it.
Panic(ref) ==
    /\ frame' = [frame EXCEPT !.pc = "done",
                              !.ret = [kind |-> "panic", ptr |-> Null, err |-> <<>>],
                              !.trace = @ \o <<Event("derive", ref), Event("panic", ref)>>]
    /\ UNCHANGED <<heap, log, slots, made>>

\* addr_of_mut!((*joined_ptr).dependent).write(dep)
WriteDependent(ref, dep, pc) ==
    /\ heap' = [heap EXCEPT ![frame.joined_ptr].dependent = dep]
    /\ log' = Logged(frame.joined_ptr, <<"write_dependent">>)
    /\ frame' = [frame EXCEPT !.pc = pc,
                              !.trace = @ \o <<Event("derive", ref),
                                               Event("write_dependent", frame.joined_ptr)>>]
    /\ UNCHANGED <<slots, made>>

\* Self { unsafe_self_cell: UnsafeSelfCell::new(joined_void_ptr) }
ReturnHandle(op) ==
    /\ frame.op = op
    /\ frame.pc = "return"
    /\ slots' = [slots EXCEPT ![frame.dst] = Handle(frame.joined_ptr)]
    /\ made' = [made EXCEPT ![frame.dst] =
                    [owner |-> frame.owner.v, builder |-> frame.builder]]
    /\ frame' = [frame EXCEPT !.pc = "done",
                              !.ret = [kind |-> "handle", ptr |-> frame.joined_ptr,
                                       err |-> <<>>],
                              !.trace = @ \o <<Event("handle", frame.joined_ptr)>>]
    /\ UNCHANGED <<ConstructorType, Covariance, heap, log, obs>>

\* ---- fn new(owner) -> Self
New(owner, dst) ==
    /\ ConstructorType = "from"
    /\ \E ptr \in Addrs : Enter("new", owner, "into", dst, 0, ptr)

New_WriteOwner == WriteOwner("new")

New_InitDependent ==
    /\ frame.op = "new"
    /\ frame.pc = "init_dependent"
    /\ \/ Panic(OwnerRef)
       \/ WriteDependent(OwnerRef, From(OwnerRef), "return")
    /\ UNCHANGED <<ConstructorType, Covariance, obs>>

New_Return == ReturnHandle("new")

\* ---- fn try_from(owner) -> Result<Self, Error>
TryFrom(owner, dst) ==
    /\ ConstructorType = "try_from"
    /\ \E ptr \in Addrs : Enter("try_from", owner, "try_into", dst, 0, ptr)

TryFrom_WriteOwner == WriteOwner("try_from")

\* try_inplace_init()
TryFrom_InitDependent ==
    /\ frame.op = "try_from"
    /\ frame.pc = "init_dependent"
    /\ \/ Panic(OwnerRef)
       \/ /\ ~TryFromFails(OwnerRef)
          /\ WriteDependent(OwnerRef, From(OwnerRef), "return")
       \/ /\ TryFromFails(OwnerRef)
          /\ frame' = [frame EXCEPT !.pc = "cleanup",
                                    !.err = TryFromError(OwnerRef),
                                    !.trace = @ \o <<Event("derive", OwnerRef),
                                                     Event("error", OwnerRef)>>]
          /\ UNCHANGED <<heap, log, slots, made>>
    /\ UNCHANGED <<ConstructorType, Covariance, obs>>

TryFrom_ReturnOk == ReturnHandle("try_from")

\* The error the Err arm returns.
ReturnedError == frame.err

\* An Err arm that frees the block without dropping the owner in it.
TryFrom_Cleanup_NoOwnerDrop ==
    /\ frame.op = "try_from"
    /\ frame.pc = "cleanup"
    /\ heap' = IF frame.joined_ptr = Null THEN heap
               ELSE [heap EXCEPT ![frame.joined_ptr] =
                         JoinedCell("free", UninitOwner, UninitDep)]
    /\ log' = Logged(frame.joined_ptr, <<"dealloc">>)
    /\ frame' = [frame EXCEPT !.pc = "done",
                              !.ret = [kind |-> "err", ptr |-> Null,
                                       err |-> ReturnedError],
                              !.trace = @ \o <<Event("dealloc", frame.joined_ptr)>>]
    /\ UNCHANGED <<ConstructorType, Covariance, slots, made, obs>>

\* Err(err) => { drop_in_place(owner); dealloc(joined_void_ptr, layout); Err(err) }
\* (with a null joined_ptr the owner at address 0 is dropped and dealloc gets
\* the null pointer, which frees nothing).
TryFrom_Cleanup ==
    /\ frame.op = "try_from"
    /\ frame.pc = "cleanup"
    /\ heap' = IF frame.joined_ptr = Null
               THEN [heap EXCEPT ![Null].owner.st = "dropped"]
               ELSE [heap EXCEPT ![frame.joined_ptr] =
                         JoinedCell("free", UninitOwner, UninitDep)]
    /\ log' = Logged(frame.joined_ptr, <<"drop_owner", "dealloc">>)
    /\ frame' = [frame EXCEPT !.pc = "done",
                              !.ret = [kind |-> "err", ptr |-> Null,
                                       err |-> ReturnedError],
                              !.trace = @ \o <<Event("drop_owner", frame.joined_ptr),
                                               Event("dealloc", frame.joined_ptr)>>]
    /\ UNCHANGED <<ConstructorType, Covariance, slots, made, obs>>

\* ---- fn from_fn(owner, dependent_builder) -> Self
FromFn(owner, b, dst) ==
    /\ ConstructorType = "from_fn"
    /\ \E ptr \in Addrs : Enter("from_fn", owner, b, dst, 0, ptr)

FromFn_WriteOwner == WriteOwner("from_fn")

FromFn_InitDependent ==
    /\ frame.op = "from_fn"
    /\ frame.pc = "init_dependent"
    /\ \/ Panic(OwnerRef)
       \/ WriteDependent(OwnerRef, dependent_builder(frame.builder, OwnerRef), "return")
    /\ UNCHANGED <<ConstructorType, Covariance, obs>>

FromFn_Return == ReturnHandle("from_fn")

\* ------------------------------------------------------ UnsafeSelfCell
\* UnsafeSelfCell::borrow_owner: the address of the owner field of the block.
unsafe_borrow_owner(cell) == Ref(cell, "owner")
\* UnsafeSelfCell::borrow_dependent: the address of the dependent field.
unsafe_borrow_dependent(cell) == Ref(cell, "dependent")

\* ---------------------------------------------------------- accessors
\* What the caller reads through a reference an accessor returned.
Load(ref) == heap[ref.a][ref.f]

\* fn borrow_owner(&self) -> &Owner
borrow_owner(h) == unsafe_borrow_owner(h.unsafe_self_cell)

\* fn with_dependent(&self, func): the two references func is called with.
with_dependent(h) ==
    [owner |-> unsafe_borrow_owner(h.unsafe_self_cell),
     dependent |-> unsafe_borrow_dependent(h.unsafe_self_cell)]

\* A direct accessor that hands out the owner field's address.
borrow_dependent_OfOwnerField(h) == unsafe_borrow_owner(h.unsafe_self_cell)

\* fn borrow_dependent(&self) -> &Dependent, generated for #[covariant] only.
borrow_dependent(h) == unsafe_borrow_dependent(h.unsafe_self_cell)

ReadOnly ==
    /\ frame' = NoCall
    /\ UNCHANGED <<ConstructorType, Covariance, heap, log, slots, made>>

BorrowOwner(s) ==
    /\ Idle
    /\ slots[s].alive
    /\ obs' = [acc |-> "borrow_owner", slot |-> s,
               owner_ref |-> borrow_owner(slots[s]),
               owner |-> Load(borrow_owner(slots[s])),
               dep_ref |-> NoRef, dep |-> UninitDep]
    /\ ReadOnly

\* A with_dependent that takes self by value: the call uses the handle up.
WithDependent_BySelf(s) ==
    /\ Idle
    /\ slots[s].alive
    /\ obs' = [acc |-> "with_dependent", slot |-> s,
               owner_ref |-> with_dependent(slots[s]).owner,
               owner |-> Load(with_dependent(slots[s]).owner),
               dep_ref |-> with_dependent(slots[s]).dependent,
               dep |-> Load(with_dependent(slots[s]).dependent)]
    /\ slots' = [slots EXCEPT ![s] = NoHandle]
    /\ frame' = NoCall
    /\ UNCHANGED <<ConstructorType, Covariance, heap, log, made>>

WithDependent(s) ==
    /\ Idle
    /\ slots[s].alive
    /\ obs' = [acc |-> "with_dependent", slot |-> s,
               owner_ref |-> with_dependent(slots[s]).owner,
               owner |-> Load(with_dependent(slots[s]).owner),
               dep_ref |-> with_dependent(slots[s]).dependent,
               dep |-> Load(with_dependent(slots[s]).dependent)]
    /\ ReadOnly

BorrowDependent(s) ==
    /\ Covariance = "covariant"
    /\ Idle
    /\ slots[s].alive
    /\ obs' = [acc |-> "borrow_dependent", slot |-> s,
               owner_ref |-> NoRef, owner |-> UninitOwner,
               dep_ref |-> borrow_dependent(slots[s]),
               dep |-> Load(borrow_dependent(slots[s]))]
    /\ ReadOnly

\* ---- impl PartialEq: *self.borrow_owner() == *other.borrow_owner()
\* String's ==: the two strings have the same contents.
OwnerEq(x, y) == x.v = y.v

\* What the comparison can return: the comparison of the two owners when both
\* slots hold one; a read of a String that drop_in_place already ran on is
\* undefined, and then the call returns either answer or traps.
eq(self, other) ==
    IF /\ Load(borrow_owner(self)).st = "init"
       /\ Load(borrow_owner(other)).st = "init"
    THEN {IF OwnerEq(Load(borrow_owner(self)), Load(borrow_owner(other)))
          THEN "true" ELSE "false"}
    ELSE {"true", "false", "trap"}

Eq(a, b) ==
    /\ Idle
    /\ slots[a].alive
    /\ slots[b].alive
    /\ \E r \in eq(slots[a], slots[b]) :
          frame' = [NoCall EXCEPT !.op = "eq", !.src = a, !.dst = b,
                                  !.pc = IF r = "trap" THEN "aborted" ELSE "done",
                                  !.ret = [kind |-> r, ptr |-> Null, err |-> <<>>]]
    /\ obs' = NoObs
    /\ UNCHANGED <<ConstructorType, Covariance, heap, log, slots, made>>

\* ---- impl Clone: Self::new(self.borrow_owner().clone())
Clone(src, dst) ==
    /\ ConstructorType = "from"
    /\ slots[src].alive
    /\ \E ptr \in Addrs :
          Enter("new", CloneOwner(Load(borrow_owner(slots[src]))).v,
                "into", dst, src, ptr)

\* A handle that can be copied: the source stays usable after the move.
Move_SourceKept(from, to) ==
    /\ Idle
    /\ slots[from].alive
    /\ slots[to] = NoHandle
    /\ slots' = [slots EXCEPT ![to] = slots[from]]
    /\ made' = [made EXCEPT ![to] = made[from]]
    /\ obs' = NoObs
    /\ frame' = [NoCall EXCEPT !.op = "move", !.src = from, !.dst = to]
    /\ UNCHANGED <<ConstructorType, Covariance, heap, log>>

\* A handle that holds the joined cell inline: a move copies the cell's bytes
\* to the new place and gives the old place up.
Move_Relocating(from, to) ==
    /\ Idle
    /\ slots[from].alive
    /\ slots[to] = NoHandle
    /\ \E ptr \in Blocks :
          /\ heap[ptr].status = "free"
          /\ heap' = [heap EXCEPT
                         ![ptr] = heap[slots[from].unsafe_self_cell],
                         ![slots[from].unsafe_self_cell] =
                             JoinedCell(IF slots[from].unsafe_self_cell = Null
                                        THEN "null" ELSE "free",
                                        UninitOwner, UninitDep)]
          /\ log' = [a \in Blocks |->
                        IF a = ptr /\ slots[from].unsafe_self_cell # Null
                        THEN log[slots[from].unsafe_self_cell]
                        ELSE IF a = slots[from].unsafe_self_cell THEN <<>> ELSE log[a]]
          /\ slots' = [slots EXCEPT ![to] = Handle(ptr), ![from] = NoHandle]
    /\ made' = [made EXCEPT ![to] = made[from], ![from] = NotMade]
    /\ obs' = NoObs
    /\ frame' = [NoCall EXCEPT !.op = "move", !.src = from, !.dst = to]
    /\ UNCHANGED <<ConstructorType, Covariance>>

\* ---- a move of the handle from one caller variable to another: the
\* struct's one field, the pointer, is copied and the source is given up.
Move(from, to) ==
    /\ Idle
    /\ slots[from].alive
    /\ slots[to] = NoHandle
    /\ slots' = [slots EXCEPT ![to] = slots[from], ![from] = NoHandle]
    /\ made' = [made EXCEPT ![to] = made[from], ![from] = NotMade]
    /\ obs' = NoObs
    /\ frame' = [NoCall EXCEPT !.op = "move", !.src = from, !.dst = to]
    /\ UNCHANGED <<ConstructorType, Covariance, heap, log>>

\* A Drop that does not call drop_joined.
Drop_WithoutDropJoined(s) ==
    /\ Idle
    /\ slots[s].alive
    /\ frame' = [NoCall EXCEPT !.op = "drop",
                               !.joined_ptr = slots[s].unsafe_self_cell, !.src = s,
                               !.ret = [kind |-> "dropped", ptr |-> Null, err |-> <<>>]]
    /\ slots' = [slots EXCEPT ![s] = NoHandle]
    /\ made' = [made EXCEPT ![s] = NotMade]
    /\ obs' = NoObs
    /\ UNCHANGED <<ConstructorType, Covariance, heap, log>>

\* ---- impl Drop: self.unsafe_self_cell.drop_joined::<Dependent>()
Drop(s) ==
    /\ Idle
    /\ slots[s].alive
    /\ frame' = [op |-> "drop", pc |-> "drop_dependent", owner |-> UninitOwner,
                 joined_ptr |-> slots[s].unsafe_self_cell, dst |-> 0, src |-> s,
                 builder |-> "none", ret |-> NoRet, err |-> <<>>, trace |-> <<>>]
    /\ slots' = [slots EXCEPT ![s] = NoHandle]
    /\ made' = [made EXCEPT ![s] = NotMade]
    /\ obs' = NoObs
    /\ UNCHANGED <<ConstructorType, Covariance, heap, log>>

\* UnsafeSelfCell::drop_joined, first step: drop_in_place of the dependent.
DropJoined_Dependent ==
    /\ frame.op = "drop"
    /\ frame.pc = "drop_dependent"
    /\ heap' = [heap EXCEPT ![frame.joined_ptr].dependent.st = "dropped"]
    /\ log' = Logged(frame.joined_ptr, <<"drop_dependent">>)
    /\ frame' = [frame EXCEPT !.pc = "drop_owner",
                              !.trace = @ \o <<Event("drop_dependent", frame.joined_ptr)>>]
    /\ UNCHANGED <<ConstructorType, Covariance, slots, made, obs>>

\* UnsafeSelfCell::drop_joined, second step: drop_in_place of the owner.
DropJoined_Owner ==
    /\ frame.op = "drop"
    /\ frame.pc = "drop_owner"
    /\ heap' = [heap EXCEPT ![frame.joined_ptr].owner.st = "dropped"]
    /\ log' = Logged(frame.joined_ptr, <<"drop_owner">>)
    /\ frame' = [frame EXCEPT !.pc = "dealloc",
                              !.trace = @ \o <<Event("drop_owner", frame.joined_ptr)>>]
    /\ UNCHANGED <<ConstructorType, Covariance, slots, made, obs>>

\* UnsafeSelfCell::drop_joined, last step: dealloc of the block (of nothing,
\* when the handle holds the null pointer).
DropJoined_Dealloc ==
    /\ frame.op = "drop"
    /\ frame.pc = "dealloc"
    /\ heap' = IF frame.joined_ptr = Null THEN heap
               ELSE [heap EXCEPT ![frame.joined_ptr] =
                         JoinedCell("free", UninitOwner, UninitDep)]
    /\ log' = Logged(frame.joined_ptr, <<"dealloc">>)
    /\ frame' = [frame EXCEPT !.pc = "done",
                              !.ret = [kind |-> "dropped", ptr |-> Null, err |-> <<>>],
                              !.trace = @ \o <<Event("dealloc", frame.joined_ptr)>>]
    /\ UNCHANGED <<ConstructorType, Covariance, slots, made, obs>>

\* ----------------------------------------------------------- the rest
Init ==
    /\ ConstructorType \in {"from", "try_from", "from_fn"}
    /\ Covariance \in {"covariant", "not_covariant"}
    /\ heap = [a \in Addrs |->
                  JoinedCell(IF a = Null THEN "null" ELSE "free", UninitOwner, UninitDep)]
    /\ log = [a \in Blocks |-> <<>>]
    /\ slots = [s \in Slots |-> NoHandle]
    /\ made = [s \in Slots |-> NotMade]
    /\ frame = NoCall
    /\ obs = NoObs

Next ==
    \/ \E o \in Owners, d \in Slots : New(o, d)
    \/ New_WriteOwner
    \/ New_InitDependent
    \/ New_Return
    \/ \E o \in Owners, d \in Slots : TryFrom(o, d)
    \/ TryFrom_WriteOwner
    \/ TryFrom_InitDependent
    \/ TryFrom_ReturnOk
    \/ TryFrom_Cleanup
    \/ \E o \in Owners, b \in Builders, d \in Slots : FromFn(o, b, d)
    \/ FromFn_WriteOwner
    \/ FromFn_InitDependent
    \/ FromFn_Return
    \/ \E s \in Slots : BorrowOwner(s)
    \/ \E s \in Slots : WithDependent(s)
    \/ \E s \in Slots : BorrowDependent(s)
    \/ \E a \in Slots, b \in Slots : Eq(a, b)
    \/ \E s \in Slots, d \in Slots : Clone(s, d)
    \/ \E s \in Slots, d \in Slots : Move(s, d)
    \/ \E s \in Slots : Drop(s)
    \/ DropJoined_Dependent
    \/ DropJoined_Owner
    \/ DropJoined_Dealloc

Spec == Init /\ [][Next]_vars

\* ============================================================ claims
CtorOps == {"new", "try_from", "from_fn"}
\* The places of event e in the trace of the call in flight (or last ended).
TracePos(e) == {i \in DOMAIN frame.trace : frame.trace[i].e = e}
TraceCount(e) == Cardinality(TracePos(e))
LogCount(a, e) == Cardinality({i \in DOMAIN log[a] : log[a][i] = e})

\* C1: when the derivation of try_from reports an error, then by the time
\* try_from has returned the owner was destroyed exactly once, the block was
\* freed exactly once, no dependent was written or destroyed, no handle was
\* produced, and the error returned is the error the derivation reported (for
\* this derivation: the one naming the length of the owner passed in).
C1_TryFromErrorCleansUp ==
    (frame.op = "try_from" /\ TraceCount("error") > 0) =>
        /\ TraceCount("write_dependent") = 0
        /\ TraceCount("drop_dependent") = 0
        /\ TraceCount("handle") = 0
        /\ slots[frame.dst] = NoHandle
        /\ frame.pc \in {"cleanup", "done"}
        /\ frame.pc = "done" =>
              /\ TraceCount("drop_owner") = 1
              /\ TraceCount("dealloc") = 1
              /\ \A i \in TracePos("drop_owner"), j \in TracePos("dealloc") :
                    /\ i < j
                    /\ frame.trace[i].a = frame.joined_ptr
                    /\ frame.trace[j].a = frame.joined_ptr
              /\ heap[frame.joined_ptr].status # "live"
              /\ heap[frame.joined_ptr].owner.st # "init"
              /\ frame.ret.kind = "err"
              /\ frame.ret.err = frame.err
              /\ frame.ret.err = <<"no long word", Len(frame.owner.v)>>

C1_Witness ==
    /\ frame.op = "try_from"
    /\ frame.pc = "done"
    /\ frame.ret.kind = "err"
    /\ frame.joined_ptr \in Blocks
    /\ heap[frame.joined_ptr].status = "free"

\* C3: in each constructor the owner is written exactly once (no more, and
\* once the constructor is past its owner write, no less), always before the
\* derivation starts; the dependent is written at most once (exactly once by
\* the time a handle is returned) and only after the owner was written and
\* derived from; and the reference the derivation gets is the owner field at
\* joined_ptr, where the owner was written, never the constructor's own
\* parameter.
C3_ConstructionOrder ==
    frame.op \in CtorOps =>
        /\ TraceCount("write_owner") <= 1
        /\ frame.pc \notin {"write_owner", "aborted"} => TraceCount("write_owner") = 1
        /\ TraceCount("derive") <= 1
        /\ TraceCount("write_dependent") <= 1
        /\ \A d \in TracePos("derive") :
              /\ frame.trace[d].a = Ref(frame.joined_ptr, "owner")
              /\ frame.trace[d].a.a # StackAddr
              /\ \E w \in TracePos("write_owner") :
                    w < d /\ frame.trace[w].a = frame.joined_ptr
        /\ \A wd \in TracePos("write_dependent") :
              /\ frame.trace[wd].a = frame.joined_ptr
              /\ \E d \in TracePos("derive") : d < wd
        /\ frame.ret.kind = "handle" =>
              /\ TraceCount("write_owner") = 1
              /\ TraceCount("derive") = 1
              /\ TraceCount("write_dependent") = 1
              /\ heap[frame.joined_ptr].dependent.src = Ref(frame.joined_ptr, "owner")

C3_Witness ==
    /\ frame.op = "from_fn"
    /\ frame.ret.kind = "handle"
    /\ frame.joined_ptr \in Blocks
    /\ heap[frame.joined_ptr].dependent.st = "init"
    /\ heap[frame.joined_ptr].dependent.words # <<>>

\* C5: a constructor whose allocation failed (alloc returned null) writes no
\* owner, runs no derivation and produces no handle, and does not allocate
\* again.
C5_FailedAllocationIsFatal ==
    (frame.op \in CtorOps /\ frame.joined_ptr = Null) =>
        /\ TraceCount("write_owner") = 0
        /\ TraceCount("derive") = 0
        /\ TraceCount("handle") = 0
        /\ TraceCount("alloc") = 1

\* C6: when the derivation of new or from_fn panics, the constructor drops
\* nothing, frees nothing, writes no dependent and produces no handle; the
\* block stays allocated with the owner in it, no handle points to it, and it
\* stays so for good.
Leaked(a) ==
    /\ Idle \/ frame.joined_ptr # a
    /\ log[a] = <<"alloc", "write_owner">>
LeakedIntact(a) ==
    /\ heap[a].status = "live"
    /\ heap[a].owner.st = "init"
    /\ heap[a].dependent.st = "uninit"
    /\ \A s \in Slots : slots[s].alive => slots[s].unsafe_self_cell # a
C6_PanicLeaksOwnerAndBlock ==
    ConstructorType \in {"from", "from_fn"} =>
        /\ (frame.op \in CtorOps /\ TraceCount("panic") > 0) =>
              /\ frame.pc = "done"
              /\ frame.ret.kind = "panic"
              /\ TraceCount("drop_owner") = 0
              /\ TraceCount("dealloc") = 0
              /\ TraceCount("write_dependent") = 0
              /\ TraceCount("handle") = 0
              /\ slots[frame.dst] = NoHandle
              /\ frame.joined_ptr \in Blocks => Leaked(frame.joined_ptr)
        /\ \A a \in Blocks : Leaked(a) => LeakedIntact(a)

\* C6, the "for good" part: a leaked block is leaked in every later state.
C6_LeakIsPermanent ==
    [][\A a \in Blocks : Leaked(a) => Leaked(a)']_vars

C6_PanicLeaks == []C6_PanicLeaksOwnerAndBlock /\ C6_LeakIsPermanent

C6_Witness ==
    /\ ConstructorType = "from"
    /\ \E a \in Blocks : Leaked(a) /\ heap[a].owner.st = "init"
    /\ frame.op = "drop"
    /\ frame.pc = "done"

\* What a block's log reads once a handle to it exists, and what drop_joined
\* adds to it.
Built == <<"alloc", "write_owner", "write_dependent">>
Teardown == <<"drop_dependent", "drop_owner", "dealloc">>
IsPrefix(p, q) == Len(p) <= Len(q) /\ SubSeq(q, 1, Len(p)) = p
HandlesOn(a) == {s \in Slots : slots[s].alive /\ slots[s].unsafe_self_cell = a}

\* C2: for every block a constructor built, what follows the construction is
\* the dependent's destructor, then the owner's, then the release of the
\* block, each at most once and in this order, and all three once a drop has
\* returned; while a handle to the block exists none of them has begun, so no
\* accessor reads a dependent after the owner's teardown began.
C2_DropOrder ==
    /\ \A a \in Blocks :
          /\ IsPrefix(Built, log[a]) =>
                IsPrefix(SubSeq(log[a], Len(Built) + 1, Len(log[a])), Teardown)
          /\ LogCount(a, "drop_dependent") + LogCount(a, "write_dependent") > 0 =>
                IsPrefix(Built, log[a])
          /\ HandlesOn(a) # {} => log[a] = Built
    /\ (frame.op = "drop" /\ frame.pc = "done" /\ frame.joined_ptr \in Blocks) =>
          log[frame.joined_ptr] = Built \o Teardown
    /\ (obs.acc \in {"with_dependent", "borrow_dependent"} /\ obs.dep_ref.a \in Blocks) =>
          /\ obs.dep.st = "init"
          /\ heap[obs.dep_ref.a].owner.st = "init"

C2_Witness ==
    /\ frame.op = "drop"
    /\ frame.pc = "done"
    /\ frame.joined_ptr \in Blocks
    /\ log[frame.joined_ptr] = Built \o Teardown
    /\ heap[frame.joined_ptr].status = "free"

\* C4: every handle that new(O) returned reads, through borrow_owner and
\* through with_dependent, an owner equal to O, and with_dependent's dependent
\* holds the words that the derivation yields for O itself.
C4_AccessorsReadWhatWasBuilt ==
    ConstructorType = "from" =>
        \A s \in Slots : slots[s].alive =>
            /\ Load(borrow_owner(slots[s])) = OwnerAt("init", made[s].owner)
            /\ Load(with_dependent(slots[s]).owner) = OwnerAt("init", made[s].owner)
            /\ Load(with_dependent(slots[s]).dependent).st = "init"
            /\ Load(with_dependent(slots[s]).dependent).words =
                   LongWordsFrom(made[s].owner, 1)

\* C7: every allocated block has at most one live handle; a handle's block is
\* allocated and not being torn down; and since its allocation a block saw
\* each destructor and the release at most once, the release last.
C7_SingleOwner ==
    \A a \in Blocks :
        /\ Cardinality(HandlesOn(a)) <= 1
        /\ HandlesOn(a) # {} =>
              /\ heap[a].status = "live"
              /\ ~(frame.pc # "done" /\ frame.joined_ptr = a)
        /\ LogCount(a, "drop_dependent") <= 1
        /\ LogCount(a, "drop_owner") <= 1
        /\ LogCount(a, "dealloc") <= 1
        /\ LogCount(a, "dealloc") = 1 =>
              /\ log[a][Len(log[a])] = "dealloc"
              /\ heap[a].status = "free"

C7_Witness ==
    /\ frame.op = "drop"
    /\ frame.pc = "done"
    /\ frame.joined_ptr \in Blocks
    /\ \E s \in Slots :
          /\ slots[s].alive
          /\ slots[s].unsafe_self_cell \in Blocks
          /\ slots[s].unsafe_self_cell # frame.joined_ptr

\* C8: when clone returns, the duplicate's owner equals the original's, the
\* duplicate lives in an allocated block other than the original's, its
\* dependent is the derivation from the owner in that block, and the
\* original's owner and dependent are as they were built.
C8_DuplicateIsIndependent ==
    (frame.op = "new" /\ frame.src # 0 /\ frame.ret.kind = "handle") =>
        LET x == slots[frame.src]
            d == slots[frame.dst]
        IN  /\ x.alive
            /\ d.alive
            /\ Load(borrow_owner(d)) = Load(borrow_owner(x))
            /\ d.unsafe_self_cell \in Blocks
            /\ heap[d.unsafe_self_cell].status = "live"
            /\ d.unsafe_self_cell # x.unsafe_self_cell
            /\ Load(with_dependent(d).dependent) =
                   DepAt("init", borrow_owner(d),
                         LongWordsFrom(Load(borrow_owner(d)).v, 1))
            /\ Load(borrow_owner(x)) = OwnerAt("init", made[frame.src].owner)
            /\ Load(with_dependent(x).dependent) =
                   DepAt("init", borrow_owner(x),
                         LongWordsFrom(made[frame.src].owner, 1))

\* C9: a move of a handle leaves the heap as it was and the pointer the same:
\* after it borrow_owner and with_dependent give the references and the values
\* they gave before it, and the dependent still refers to the owner field the
\* handle leads to.
C9_MoveKeepsBlock ==
    [][\A i, j \in Slots : Move(i, j) =>
          /\ slots'[j].alive
          /\ slots'[j].unsafe_self_cell = slots[i].unsafe_self_cell
          /\ heap' = heap
          /\ borrow_owner(slots'[j]) = borrow_owner(slots[i])
          /\ with_dependent(slots'[j]) = with_dependent(slots[i])
          /\ Load(borrow_owner(slots[j]))' = Load(borrow_owner(slots[i]))
          /\ Load(with_dependent(slots[j]).dependent)' =
                 Load(with_dependent(slots[i]).dependent)
          /\ Load(with_dependent(slots[j]).dependent)'.src = borrow_owner(slots'[j])
      ]_vars

C9_Witness ==
    /\ frame.op = "move"
    /\ slots[frame.dst].alive
    /\ ~slots[frame.src].alive
    /\ slots[frame.dst].unsafe_self_cell \in Blocks
    /\ Load(borrow_owner(slots[frame.dst])).st = "init"
    /\ Load(with_dependent(slots[frame.dst]).dependent).words # <<>>
    /\ Load(with_dependent(slots[frame.dst]).dependent).src =
           borrow_owner(slots[frame.dst])

\* C10: what borrow_dependent returns is the reference, and reads the value,
\* that with_dependent passes to its callback as the dependent on the same
\* handle.
C10_DirectAccessorAgrees ==
    obs.acc = "borrow_dependent" =>
        /\ Covariance = "covariant"
        /\ slots[obs.slot].alive
        /\ obs.dep_ref = with_dependent(slots[obs.slot]).dependent
        /\ obs.dep = Load(with_dependent(slots[obs.slot]).dependent)

C10_Witness ==
    /\ obs.acc = "borrow_dependent"
    /\ obs.dep_ref.a \in Blocks
    /\ obs.dep.st = "init"
    /\ obs.dep.words # <<>>

\* C11: a == b on two live instances answers true exactly when the owner a
\* was built from equals the owner b was built from, whatever their
\* dependents are, and it always answers.
C11_EqualIffOwnersEqual ==
    frame.op = "eq" =>
        /\ slots[frame.src].alive
        /\ slots[frame.dst].alive
        /\ frame.ret.kind \in {"true", "false"}
        /\ frame.ret.kind = "true" <=>
               made[frame.src].owner = made[frame.dst].owner

\* C12: borrow_owner, with_dependent and borrow_dependent only read. A call
\* of any of them on a live handle leaves the handle's pointer and liveness,
\* every block's owner slot, dependent slot and allocation status, and the
\* record of destructor runs and releases as they were; and after any run of
\* such calls the handle is still live, its block still allocated, and what
\* the call returned is still what the block holds.
Accessor ==
    \E s \in Slots : BorrowOwner(s) \/ WithDependent(s) \/ BorrowDependent(s)

C12_AccessorStepReadsOnly ==
    [][ Accessor =>
          /\ slots' = slots
          /\ heap' = heap
          /\ log' = log
          /\ made' = made
          /\ frame'.trace = <<>>
          /\ obs'.acc # "none"
          /\ slots[obs'.slot].alive
      ]_vars

C12_AfterAccessor ==
    obs.acc # "none" =>
        /\ slots[obs.slot].alive
        /\ frame = NoCall
        /\ slots[obs.slot].unsafe_self_cell \in Blocks =>
               heap[slots[obs.slot].unsafe_self_cell].status = "live"
        /\ obs.owner_ref # NoRef =>
               /\ obs.owner_ref = Ref(slots[obs.slot].unsafe_self_cell, "owner")
               /\ obs.owner = Load(obs.owner_ref)
        /\ obs.dep_ref # NoRef =>
               /\ obs.dep_ref = Ref(slots[obs.slot].unsafe_self_cell, "dependent")
               /\ obs.dep = Load(obs.dep_ref)

C12_AccessorsArePureReads == []C12_AfterAccessor /\ C12_AccessorStepReadsOnly

C12_Witness ==
    /\ obs.acc = "with_dependent"
    /\ obs.owner_ref.a \in Blocks
    /\ obs.owner.st = "init"
    /\ obs.dep.st = "init"
    /\ obs.dep.src = obs.owner_ref
    /\ \E t \in Slots : t # obs.slot /\ slots[t].alive
====
